---- MODULE Spec2Model ----
(***************************************************************************)
(* Junction (Node) and sink (Destination, CongestedDestination, OffRamp)   *)
(* coupling equations of sym_metanet, modelled around one junction of a    *)
(* network: its entering links, exiting links, optional origin and         *)
(* optional destination.  The queries of blocks/nodes.py and               *)
(* blocks/destinations.py are the actions; the network is their input.     *)
(*                                                                         *)
(* Conventions.  An Optional value is a sequence: <<>> is None and <<x>>   *)
(* is x.  A vector (the result of engine.vcat) is a sequence.  A flow or a *)
(* speed computed by a backend formula is an exact rational <<num, den>>   *)
(* in lowest terms.  Turn rates are counted in tenths (10 is 1.0); only    *)
(* their ratios enter the formulas.                                        *)
(***************************************************************************)
EXTENDS Integers, Sequences, FiniteSets, TLC

\* Largest number of links entering the junction.
MaxUp == 2
\* Largest number of links exiting the junction.
MaxDown == 2

VARIABLES net, call, result

vars == <<net, call, result>>

---------------------------------------------------------------------------
(* Exact rational arithmetic *)

Abs(x) == IF x < 0 THEN -x ELSE x

RECURSIVE GCD(_, _)
GCD(a, b) == IF b = 0 THEN a ELSE GCD(b, a % b)

\* n/d in lowest terms with a positive denominator; <<0, 0>> is "not a number".
Rat(n, d) ==
    IF d = 0 THEN <<0, 0>>
    ELSE LET g == GCD(Abs(n), Abs(d))
             s == IF d < 0 THEN -1 ELSE 1
         IN  <<(s * n) \div g, (s * d) \div g>>

RInt(n) == <<n, 1>>
RAdd(a, b) == Rat(a[1] * b[2] + b[1] * a[2], a[2] * b[2])
RSub(a, b) == Rat(a[1] * b[2] - b[1] * a[2], a[2] * b[2])
RMul(a, b) == Rat(a[1] * b[1], a[2] * b[2])

RECURSIVE SumSeq(_)
SumSeq(s) == IF s = <<>> THEN 0 ELSE Head(s) + SumSeq(Tail(s))

Min(a, b) == IF a <= b THEN a ELSE b
Max(a, b) == IF a >= b THEN a ELSE b

Last(s) == s[Len(s)]

---------------------------------------------------------------------------
(* Values returned by the queries *)

\* A density that no backend formula produced.
NoDensity == [formula |-> FALSE, arg |-> <<>>]
\* A speed that no backend formula produced.
NoSpeed == [formula |-> FALSE, val |-> <<0, 1>>]

\* A density (speed) handed back as it is, with no backend formula applied.
PlainDensity(x) == [formula |-> FALSE, arg |-> <<x>>]
PlainSpeed(x) == [formula |-> FALSE, val |-> RInt(x)]

\* A failed assertion: the query returns no value.
Raise(msg) ==
    [err |-> msg, rho |-> NoDensity, v |-> NoSpeed, q |-> <<0, 1>>, q_d |-> <<>>]

ReturnDensity(r) ==
    [err |-> "", rho |-> r, v |-> NoSpeed, q |-> <<0, 1>>, q_d |-> <<>>]

ReturnFlow(q) ==
    [err |-> "", rho |-> NoDensity, v |-> NoSpeed, q |-> q, q_d |-> <<>>]

\* The pair (v, q) of get_upstream_speed_and_flow, with the local q_d it used.
ReturnSpeedAndFlow(v, q, q_d) ==
    [err |-> "", rho |-> NoDensity, v |-> v, q |-> q, q_d |-> q_d]

---------------------------------------------------------------------------
(* Computation backend (engine) *)

get_congestion_free_downstream_density(rho_last, rho_crit) ==
    Min(rho_last, rho_crit)

get_congested_downstream_density(rho_last, rho_destination, rho_crit) ==
    Max(Min(rho_last, rho_crit), rho_destination)

\* engine.nodes.get_downstream_density: the merge formula applied to a vector.
nodes_get_downstream_density(rho_firsts) ==
    [formula |-> TRUE, arg |-> rho_firsts]

\* engine.nodes.get_upstream_speed: the flow-weighted average of the speeds.
nodes_get_upstream_speed(q_lasts, v_lasts) ==
    [formula |-> TRUE,
     val |-> Rat(SumSeq([i \in 1..Len(q_lasts) |-> q_lasts[i] * v_lasts[i]]),
                 SumSeq(q_lasts))]

\* engine.nodes.get_upstream_flow: the share beta / sum(betas) of the total
\* inflow (entering flows plus origin flow) less the flow the sink claims.
nodes_get_upstream_flow(q_lasts, beta, betas, q_orig, q_dest) ==
    LET Q0 == RInt(SumSeq(q_lasts))
        Q1 == IF q_orig = <<>> THEN Q0 ELSE RAdd(Q0, RInt(q_orig[1]))
        Q2 == IF q_dest = <<>> THEN Q1 ELSE RSub(Q1, q_dest[1])
    IN  RMul(Rat(beta, SumSeq(betas)), Q2)

\* Link.get_flow: the flow of every cell of the link.
Link_get_flow(link) == link.q

---------------------------------------------------------------------------
(* blocks/destinations.py *)

\* Destination._get_entering_link
get_entering_link(n) ==
    LET links_up == n.links_up
    IN  IF Len(links_up) # 1
        THEN [err |-> "Internal error. Only one link can enter a destination.",
              link |-> <<>>]
        ELSE [err |-> "", link |-> <<links_up[1]>>]

\* Destination.get_density (inherited unchanged by OffRamp)
Destination_get_density(n, self) ==
    LET e == get_entering_link(n)
    IN  IF e.err # "" THEN Raise(e.err)
        ELSE LET link_up == e.link[1]
             IN  ReturnDensity(PlainDensity(
                     get_congestion_free_downstream_density(
                         Last(link_up.rho), link_up.rho_crit)))

\* CongestedDestination.get_density
CongestedDestination_get_density(n, self) ==
    LET e == get_entering_link(n)
    IN  IF e.err # "" THEN Raise(e.err)
        ELSE LET link_up == e.link[1]
             IN  ReturnDensity(PlainDensity(
                     get_congested_downstream_density(
                         Last(link_up.rho), self.d, link_up.rho_crit)))

\* Method resolution of destination.get_density over the three classes.
get_density(n, self) ==
    IF self.kind = "CongestedDestination"
    THEN CongestedDestination_get_density(n, self)
    ELSE Destination_get_density(n, self)

\* A slip: get_flow is found on every destination class.
hasattr_get_flow_Always(self) == TRUE

\* hasattr(destination, "get_flow"): only OffRamp defines get_flow.
hasattr_get_flow(self) == self.kind = "OffRamp"

\* A slip: betas_down is used as given, the ramp's own turn rate not appended.
OffRamp_get_flow_NoOwnRate(n, self, q_up, q_orig, betas_down) ==
    LET e == get_entering_link(n)
    IN  IF q_up = <<>> /\ e.err # "" THEN Raise(e.err)
        ELSE
        LET q_up1 == IF q_up = <<>>
                     THEN <<Last(Link_get_flow(e.link[1]))>> ELSE q_up[1]
            q_orig1 == IF q_orig = <<>> /\ n.origin # <<>>
                       THEN <<n.origin[1].q>> ELSE q_orig
            betas == IF betas_down = <<>>
                     THEN [i \in 1..Len(n.links_down) |-> n.links_down[i].turnrate]
                     ELSE betas_down[1]
        IN  ReturnFlow(nodes_get_upstream_flow(
                q_up1, self.turnrate, betas, q_orig1, <<>>))

\* A slip: an omitted q_orig is never looked up at the junction's origin.
OffRamp_get_flow_NoOrigin(n, self, q_up, q_orig, betas_down) ==
    LET e == get_entering_link(n)
    IN  IF q_up = <<>> /\ e.err # "" THEN Raise(e.err)
        ELSE
        LET q_up1 == IF q_up = <<>>
                     THEN <<Last(Link_get_flow(e.link[1]))>> ELSE q_up[1]
            betas == IF betas_down = <<>>
                     THEN Append([i \in 1..Len(n.links_down) |->
                                     n.links_down[i].turnrate], self.turnrate)
                     ELSE Append(betas_down[1], self.turnrate)
        IN  ReturnFlow(nodes_get_upstream_flow(
                q_up1, self.turnrate, betas, q_orig, <<>>))

\* OffRamp.get_flow.  q_up, q_orig and betas_down are Optional.
OffRamp_get_flow(n, self, q_up, q_orig, betas_down) ==
    LET e == get_entering_link(n)
    IN  IF q_up = <<>> /\ e.err # "" THEN Raise(e.err)
        ELSE
        LET q_up1 == IF q_up = <<>>
                     THEN <<Last(Link_get_flow(e.link[1]))>> ELSE q_up[1]
            q_orig1 == IF q_orig = <<>> /\ n.origin # <<>>
                       THEN <<n.origin[1].q>> ELSE q_orig
            betas == IF betas_down = <<>>
                     THEN Append([i \in 1..Len(n.links_down) |->
                                     n.links_down[i].turnrate], self.turnrate)
                     ELSE Append(betas_down[1], self.turnrate)
        IN  ReturnFlow(nodes_get_upstream_flow(
                q_up1, self.turnrate, betas, q_orig1, <<>>))

---------------------------------------------------------------------------
(* blocks/nodes.py: Node.get_downstream_density *)

\* A slip: an off-ramp is taken to have no density of its own.
density_dest_OffRampNone(n) ==
    IF n.dest # <<>> /\ n.dest[1].kind # "OffRamp"
    THEN LET r == get_density(n, n.dest[1])
         IN  [err |-> r.err, val |-> IF r.err = "" THEN r.rho.arg ELSE <<>>]
    ELSE [err |-> "", val |-> <<>>]

\* The density of the destination, if any: None when the junction has none.
density_dest(n) ==
    IF n.dest # <<>>
    THEN LET r == get_density(n, n.dest[1])
         IN  [err |-> r.err, val |-> IF r.err = "" THEN r.rho.arg ELSE <<>>]
    ELSE [err |-> "", val |-> <<>>]

\* A slip: the one-link fast path is taken whether or not a destination
\* density exists.
Node_get_downstream_density_FastPath(n) ==
    LET dd == density_dest(n)
        links_down == n.links_down
        n_down == Len(links_down)
    IN  IF dd.err # "" THEN Raise(dd.err)
        ELSE IF n_down = 0
        THEN IF dd.val = <<>> THEN Raise("No exiting links or destination!")
             ELSE ReturnDensity(PlainDensity(dd.val[1]))
        ELSE IF n_down = 1
        THEN ReturnDensity(PlainDensity(links_down[1].rho[1]))
        ELSE LET rho_firsts == [i \in 1..n_down |-> links_down[i].rho[1]]
             IN  ReturnDensity(nodes_get_downstream_density(rho_firsts \o dd.val))

Node_get_downstream_density(n) ==
    LET dd == density_dest(n)
        links_down == n.links_down
        n_down == Len(links_down)
    IN  IF dd.err # "" THEN Raise(dd.err)
        ELSE IF n_down = 0
        THEN IF dd.val = <<>> THEN Raise("No exiting links or destination!")
             ELSE ReturnDensity(PlainDensity(dd.val[1]))
        ELSE IF n_down = 1 /\ dd.val = <<>>
        THEN ReturnDensity(PlainDensity(links_down[1].rho[1]))
        ELSE LET rho_firsts == [i \in 1..n_down |-> links_down[i].rho[1]]
             IN  ReturnDensity(nodes_get_downstream_density(rho_firsts \o dd.val))

---------------------------------------------------------------------------
(* blocks/nodes.py: Node.get_upstream_speed_and_flow *)

\* A slip: with no entering link the origin's flow is moved into q_up but
\* q_o is not set to 0.
upstream_speed_and_inflow_NoZero(n) ==
    LET links_up == n.links_up
        origin == n.origin
        n_up == Len(links_up)
        v_up == [i \in 1..n_up |-> Last(links_up[i].v)]
        q_up == [i \in 1..n_up |-> Last(Link_get_flow(links_up[i]))]
        v_o == IF origin # <<>> THEN origin[1].v ELSE 0
        q_o == IF origin # <<>> THEN origin[1].q ELSE 0
    IN  IF n_up = 0 /\ origin = <<>>
        THEN [err |-> "No entering links or origin!",
              v |-> NoSpeed, q_up |-> <<>>, q_o |-> 0]
        ELSE IF n_up = 0
        THEN [err |-> "", v |-> PlainSpeed(v_o), q_up |-> <<q_o>>, q_o |-> q_o]
        ELSE IF n_up = 1
        THEN [err |-> "", v |-> PlainSpeed(v_up[1]), q_up |-> <<q_up[1]>>,
              q_o |-> q_o]
        ELSE [err |-> "", v |-> nodes_get_upstream_speed(q_up, v_up),
              q_up |-> q_up, q_o |-> q_o]

\* The first half of the method: the inflow assertion, the upstream speed v,
\* and the adjusted q_up (a vector) and q_o.
upstream_speed_and_inflow(n) ==
    LET links_up == n.links_up
        origin == n.origin
        n_up == Len(links_up)
        v_up == [i \in 1..n_up |-> Last(links_up[i].v)]
        q_up == [i \in 1..n_up |-> Last(Link_get_flow(links_up[i]))]
        v_o == IF origin # <<>> THEN origin[1].v ELSE 0
        q_o == IF origin # <<>> THEN origin[1].q ELSE 0
    IN  IF n_up = 0 /\ origin = <<>>
        THEN [err |-> "No entering links or origin!",
              v |-> NoSpeed, q_up |-> <<>>, q_o |-> 0]
        ELSE IF n_up = 0
        THEN [err |-> "", v |-> PlainSpeed(v_o), q_up |-> <<q_o>>, q_o |-> 0]
        ELSE IF n_up = 1
        THEN [err |-> "", v |-> PlainSpeed(v_up[1]), q_up |-> <<q_up[1]>>,
              q_o |-> q_o]
        ELSE [err |-> "", v |-> nodes_get_upstream_speed(q_up, v_up),
              q_up |-> q_up, q_o |-> q_o]

\* A slip: the queried link is looked for among the entering links.
link_is_outgoing_Entering(n, link) ==
    \E i \in 1..Len(n.links_up) : link.id = n.links_up[i].id

\* any(link is link_down for _, _, link_down in links_down): by identity.
link_is_outgoing(n, link) ==
    \E i \in 1..Len(n.links_down) : link.id = n.links_down[i].id

\* A slip: the destination's flow is never asked for, q_d stays None.
sink_demand_Dropped(n, q_up, q_o, betas) ==
    IF n.dest # <<>>
    THEN LET destination == n.dest[1]
         IN  IF ~hasattr_get_flow(destination)
             THEN [err |-> "Destination is not an off-ramp!", q_d |-> <<>>]
             ELSE [err |-> "", q_d |-> <<>>]
    ELSE [err |-> "", q_d |-> <<>>]

\* The flow q_d the destination claims: None when the junction has none.
sink_demand(n, q_up, q_o, betas) ==
    IF n.dest # <<>>
    THEN LET destination == n.dest[1]
         IN  IF ~hasattr_get_flow(destination)
             THEN [err |-> "Destination is not an off-ramp!", q_d |-> <<>>]
             ELSE LET r == OffRamp_get_flow(n, destination,
                                            <<q_up>>, <<q_o>>, <<betas>>)
                  IN  [err |-> r.err,
                       q_d |-> IF r.err = "" THEN <<r.q>> ELSE <<>>]
    ELSE [err |-> "", q_d |-> <<>>]

Node_get_upstream_speed_and_flow(n, link) ==
    LET up == upstream_speed_and_inflow(n)
    IN  IF up.err # "" THEN Raise(up.err)
        ELSE IF ~link_is_outgoing(n, link)
        THEN Raise("Link not contained in entering links!")
        ELSE
        LET links_down == n.links_down
            betas == [i \in 1..Len(links_down) |-> links_down[i].turnrate]
            d == sink_demand(n, up.q_up, up.q_o, betas)
        IN  IF d.err # "" THEN Raise(d.err)
            ELSE ReturnSpeedAndFlow(
                     up.v,
                     nodes_get_upstream_flow(
                         up.q_up, link.turnrate, betas, <<up.q_o>>, d.q_d),
                     d.q_d)

---------------------------------------------------------------------------
(* The networks the queries are applied to *)

\* All sequences over S of length at most k.
SeqsUpTo(S, k) == UNION {[1..j -> S] : j \in 0..k}

\* Last-cell speeds and flows of entering links, origin speed and flow.
Speeds == {50, 80}
Flows == {40, 100}
\* Last-cell densities and critical densities of entering links.
DensitiesLast == {10, 30}
CriticalDensities == {25}
\* First-cell densities of exiting links.
DensitiesFirst == {12, 35}
\* Turn rates, in tenths, of exiting links and of off-ramps.  They are
\* positive: the backend divides by their sum.
LinkTurnRates == {3, 7}
RampTurnRates == {3, 10}
\* Disturbance d of a congested destination.
Disturbances == {0, 18}

\* A link of two cells: states rho and v, cell flows q, turnrate, rho_crit.
\* Links are told apart by id (object identity), not by their contents.
UpLink(i, rho_last, rho_crit, v_last, q_last) ==
    [id |-> i, rho |-> <<15, rho_last>>, v |-> <<60, v_last>>,
     q |-> <<90, q_last>>, turnrate |-> 10, rho_crit |-> rho_crit]

DownLink(i, rho_first, turnrate) ==
    [id |-> MaxUp + i, rho |-> <<rho_first, 20>>, v |-> <<70, 65>>,
     q |-> <<80, 75>>, turnrate |-> turnrate, rho_crit |-> 25]

\* A link of the network that neither enters nor exits the junction; it has
\* the contents of an exiting link.
OtherLink == [id |-> 0, rho |-> <<12, 20>>, v |-> <<70, 65>>,
              q |-> <<80, 75>>, turnrate |-> 7, rho_crit |-> 25]

Origins == {<<>>} \cup {<<[v |-> 90, q |-> 20]>>}

Sink(kind, turnrate, d) == [kind |-> kind, turnrate |-> turnrate, d |-> d]

\* Networks that vary what the flow and speed queries read.
FlowNetworks ==
    {[links_up |-> [i \in 1..Len(u) |-> UpLink(i, 30, 25, u[i][1], u[i][2])],
      links_down |-> [i \in 1..Len(w) |-> DownLink(i, 12, w[i])],
      other |-> OtherLink,
      origin |-> o,
      dest |-> t] :
        u \in SeqsUpTo(Speeds \X Flows, MaxUp),
        w \in SeqsUpTo(LinkTurnRates, MaxDown),
        o \in Origins,
        t \in {<<>>, <<Sink("Destination", 0, 0)>>,
               <<Sink("CongestedDestination", 0, 18)>>}
              \cup {<<Sink("OffRamp", b, 0)>> : b \in RampTurnRates}}

\* Networks that vary what the density queries read.
DensityNetworks ==
    {[links_up |-> [i \in 1..Len(u) |-> UpLink(i, u[i][1], u[i][2], 50, 100)],
      links_down |-> [i \in 1..Len(w) |-> DownLink(i, w[i], 7)],
      other |-> OtherLink,
      origin |-> o,
      dest |-> t] :
        u \in SeqsUpTo(DensitiesLast \X CriticalDensities, MaxUp),
        w \in SeqsUpTo(DensitiesFirst, MaxDown),
        o \in Origins,
        t \in {<<>>, <<Sink("Destination", 0, 0)>>, <<Sink("OffRamp", 10, 0)>>}
              \cup {<<Sink("CongestedDestination", 0, d)>> : d \in Disturbances}}

\* Every link of the network, as a set.
AllLinks(n) ==
    {n.links_up[i] : i \in 1..Len(n.links_up)}
        \cup {n.links_down[i] : i \in 1..Len(n.links_down)}
        \cup {n.other}

\* Arguments a caller may pass to OffRamp.get_flow explicitly.
ExplicitFlows == {<<>>, <<<<70>>>>}
ExplicitOriginFlows == {<<>>, <<30>>}
ExplicitBetas == {<<>>, <<<<5>>>>}

---------------------------------------------------------------------------
(* The state machine *)

NoCall == [op |-> "none", link |-> 0, q_up |-> <<>>, q_orig |-> <<>>,
           betas_down |-> <<>>]

Init ==
    /\ net \in FlowNetworks \cup DensityNetworks
    /\ call = NoCall
    /\ result = Raise("no call yet")

\* A slip: the destination's density is appended to the first exiting link's
\* rho array instead of to the local list rho_firsts.
Call_get_downstream_density_Appends ==
    /\ call' = [NoCall EXCEPT !.op = "get_downstream_density"]
    /\ result' = Node_get_downstream_density(net)
    /\ net' = IF Len(net.links_down) > 0 /\ result'.err = ""
              THEN [net EXCEPT !.links_down[1].rho =
                        Append(<<result'.rho.arg[Len(result'.rho.arg)]>>, @[2])]
              ELSE net

\* node.get_downstream_density(net)
Call_get_downstream_density ==
    /\ call' = [NoCall EXCEPT !.op = "get_downstream_density"]
    /\ result' = Node_get_downstream_density(net)
    /\ UNCHANGED net

\* node.get_upstream_speed_and_flow(net, link), for any link of the network
Call_get_upstream_speed_and_flow ==
    \E link \in AllLinks(net) :
        /\ call' = [NoCall EXCEPT !.op = "get_upstream_speed_and_flow",
                                  !.link = link.id]
        /\ result' = Node_get_upstream_speed_and_flow(net, link)
        /\ UNCHANGED net

\* destination.get_density(net), for the junction's destination
Call_get_density ==
    /\ net.dest # <<>>
    /\ call' = [NoCall EXCEPT !.op = "get_density"]
    /\ result' = get_density(net, net.dest[1])
    /\ UNCHANGED net

\* offramp.get_flow(net, q_up=..., q_orig=..., betas_down=...), each argument
\* passed or omitted
Call_get_flow ==
    /\ net.dest # <<>>
    /\ net.dest[1].kind = "OffRamp"
    /\ \E q_up \in ExplicitFlows, q_orig \in ExplicitOriginFlows,
          betas_down \in ExplicitBetas :
        /\ call' = [op |-> "get_flow", link |-> 0, q_up |-> q_up,
                    q_orig |-> q_orig, betas_down |-> betas_down]
        /\ result' = OffRamp_get_flow(net, net.dest[1], q_up, q_orig, betas_down)
    /\ UNCHANGED net

Next ==
    \/ Call_get_downstream_density
    \/ Call_get_upstream_speed_and_flow
    \/ Call_get_density
    \/ Call_get_flow

Spec == Init /\ [][Next]_vars

---------------------------------------------------------------------------
(* Vocabulary of the properties, stated on the network itself *)

NUp == Len(net.links_up)
NDown == Len(net.links_down)
HasOrigin == net.origin # <<>>
HasSink == net.dest # <<>>
HasOffRamp == HasSink /\ net.dest[1].kind = "OffRamp"
ValidInflow == NUp > 0 \/ HasOrigin

\* Turn rates and first-cell densities of the exiting links, in graph order.
OutRates == [i \in 1..NDown |-> net.links_down[i].turnrate]
OutFirstDensities == [i \in 1..NDown |-> net.links_down[i].rho[1]]
\* Last-cell flows and speeds of the entering links, in graph order.
InFlows == [i \in 1..NUp |-> net.links_up[i].q[2]]
InSpeeds == [i \in 1..NUp |-> net.links_up[i].v[2]]
OriginFlow == IF HasOrigin THEN net.origin[1].q ELSE 0

\* Total inflow of the junction: entering links' last-cell flows plus the
\* origin's flow.
TotalInflow == SumSeq(InFlows) + OriginFlow

\* The queried link is one of the exiting links.
QueriedIsOutgoing == \E i \in 1..NDown : net.links_down[i].id = call.link
QueriedRate == (CHOOSE l \in AllLinks(net) : l.id = call.link).turnrate

RECURSIVE RSumSeq(_)
RSumSeq(s) == IF s = <<>> THEN <<0, 1>> ELSE RAdd(Head(s), RSumSeq(Tail(s)))

IsDensityCall == call.op = "get_downstream_density"
IsSpeedFlowCall == call.op = "get_upstream_speed_and_flow"
Returned == result.err = ""

StructuralError == "Internal error. Only one link can enter a destination."

---------------------------------------------------------------------------
(* Properties *)

\* C1: flow conservation at a junction with an off-ramp.  Whenever
\* get_upstream_speed_and_flow returns at a junction with an off-ramp, the
\* flows it returns for all exiting links, summed, plus the off-ramp flow
\* (the q_d of the call; with exactly one entering link also get_flow with
\* its arguments omitted) equal the total inflow.
C1_FlowConservation ==
    (IsSpeedFlowCall /\ Returned /\ HasOffRamp) =>
        LET r == [i \in 1..NDown |->
                     Node_get_upstream_speed_and_flow(net, net.links_down[i])]
            ramp == result.q_d[1]
        IN  /\ result.q_d # <<>>
            /\ \A i \in 1..NDown : r[i].err = "" /\ r[i].q_d = <<ramp>>
            /\ RAdd(RSumSeq([i \in 1..NDown |-> r[i].q]), ramp)
                   = RInt(TotalInflow)
            /\ NUp = 1 =>
                   LET f == OffRamp_get_flow(net, net.dest[1], <<>>, <<>>, <<>>)
                   IN  /\ f.err = ""
                       /\ RAdd(RSumSeq([i \in 1..NDown |-> r[i].q]), f.q)
                              = RInt(TotalInflow)

\* The example: inflow 100, mainline turn rate 0.7, ramp 0.3: ramp 30, mainline 70.
C1_Witness ==
    /\ IsSpeedFlowCall /\ Returned /\ HasOffRamp
    /\ NUp = 1 /\ ~HasOrigin /\ InFlows = <<100>>
    /\ OutRates = <<7>> /\ net.dest[1].turnrate = 3
    /\ result.q = <<70, 1>>
    /\ result.q_d = << <<30, 1>> >>

\* C2: OffRamp.get_flow returns beta_ramp / (sum of the exiting links' turn
\* rates + beta_ramp) times (upstream flow + origin flow), nothing
\* subtracted; with no exiting link it is the whole upstream flow.
C2_OffRampShare ==
    (call.op = "get_flow") =>
        LET beta == net.dest[1].turnrate
            B == IF call.betas_down = <<>> THEN SumSeq(OutRates)
                 ELSE SumSeq(call.betas_down[1])
            qu == IF call.q_up = <<>> THEN InFlows[1] ELSE SumSeq(call.q_up[1])
            qo == IF call.q_orig = <<>> THEN OriginFlow ELSE call.q_orig[1]
        IN  /\ (call.q_up # <<>> \/ NUp = 1) => Returned
            /\ Returned =>
                 /\ result.q = RMul(Rat(beta, B + beta), RInt(qu + qo))
                 /\ (call.betas_down = <<>> /\ NDown = 0) =>
                        result.q = RInt(qu + qo)

C2_Witness ==
    /\ call.op = "get_flow" /\ Returned
    /\ call.q_up = <<>> /\ call.q_orig = <<>> /\ call.betas_down = <<>>
    /\ NDown = 0 /\ HasOrigin /\ net.dest[1].turnrate = 10
    /\ result.q = RInt(InFlows[1] + OriginFlow)

\* The density the sink induces on its one entering link.
SinkDensity ==
    LET up == net.links_up[1]
        free == IF up.rho[2] <= up.rho_crit THEN up.rho[2] ELSE up.rho_crit
    IN  IF net.dest[1].kind = "CongestedDestination"
        THEN (IF free >= net.dest[1].d THEN free ELSE net.dest[1].d)
        ELSE free

\* C3: get_downstream_density, whenever the sink's own get_density returns
\* (there is no sink, or exactly one link enters the junction), and with the
\* sink density being None without a sink:
\* (i) with no exiting link returns the sink density, failing if there is
\* none; (ii) with one exiting link and no sink density returns that link's
\* first-cell density as it is; (iii) otherwise returns the backend formula
\* of the exiting links' first-cell densities followed by the sink density.
C3_ThreeWayDensity ==
    (IsDensityCall /\ (HasSink => NUp = 1)) =>
        LET sd == IF HasSink THEN <<SinkDensity>> ELSE <<>>
        IN  IF NDown = 0
            THEN IF sd = <<>>
                 THEN result.err = "No exiting links or destination!"
                 ELSE Returned /\ result.rho = [formula |-> FALSE, arg |-> sd]
            ELSE IF NDown = 1 /\ sd = <<>>
            THEN /\ Returned
                 /\ result.rho = [formula |-> FALSE,
                                  arg |-> <<net.links_down[1].rho[1]>>]
            ELSE /\ Returned
                 /\ result.rho = [formula |-> TRUE,
                                  arg |-> OutFirstDensities \o sd]

\* One exiting link and a sink density: the merge formula, not the fast path.
C3_Witness ==
    /\ IsDensityCall /\ Returned
    /\ NDown = 1 /\ HasSink /\ net.dest[1].kind = "Destination"
    /\ result.rho.formula /\ Len(result.rho.arg) = 2

\* C4 as stated: in get_downstream_density an off-ramp contributes no
\* density: one exiting link gives that link's first-cell density directly,
\* several give the merge of the links' densities only, none gives no value.
C4_OffRampNoDensity ==
    (IsDensityCall /\ HasOffRamp) =>
        /\ NDown = 0 => ~Returned
        /\ NDown = 1 =>
               /\ Returned
               /\ result.rho = [formula |-> FALSE, arg |-> OutFirstDensities]
        /\ NDown > 1 =>
               /\ Returned
               /\ result.rho = [formula |-> TRUE, arg |-> OutFirstDensities]

\* C4 amended: an off-ramp contributes the congestion-free density
\* min(rho_last, rho_crit) of its one entering link, as a free-flow sink
\* does: with no exiting link that density is returned, with one or more the
\* merge formula is applied to the links' first-cell densities followed by
\* it; if not exactly one link enters the junction the query fails.
C4_OffRampDensity ==
    (IsDensityCall /\ HasOffRamp) =>
        IF NUp # 1 THEN result.err = StructuralError
        ELSE LET up == net.links_up[1]
                 x == IF up.rho[2] <= up.rho_crit THEN up.rho[2] ELSE up.rho_crit
             IN  /\ Returned
                 /\ result.rho = IF NDown = 0
                                 THEN [formula |-> FALSE, arg |-> <<x>>]
                                 ELSE [formula |-> TRUE,
                                       arg |-> Append(OutFirstDensities, x)]

C4_Witness ==
    /\ IsDensityCall /\ HasOffRamp /\ Returned
    /\ NUp = 1 /\ NDown = 1
    /\ result.rho.formula
    /\ result.rho.arg = <<net.links_down[1].rho[1], 25>>

\* C5: whenever the number of links entering a sink's junction is not one,
\* get_density, get_flow, get_downstream_density and
\* get_upstream_speed_and_flow at that junction all fail.
C5_SinkInflowAlwaysChecked ==
    (HasSink /\ NUp # 1 /\ call.op # "none") => ~Returned

\* C6: get_upstream_speed_and_flow fails at a junction whose sink has no
\* get_flow, with the capability error when the inflow is valid and the
\* queried link exits the junction; it returns only with no sink (q_d None)
\* or with an off-ramp (q_d the off-ramp's share of the total inflow).
C6_CapabilityError ==
    IsSpeedFlowCall =>
        /\ (HasSink /\ ~HasOffRamp) =>
               /\ ~Returned
               /\ (ValidInflow /\ QueriedIsOutgoing) =>
                      result.err = "Destination is not an off-ramp!"
        /\ Returned =>
               \/ ~HasSink /\ result.q_d = <<>>
               \/ /\ HasOffRamp
                  /\ result.q_d =
                       <<RMul(Rat(net.dest[1].turnrate,
                                  SumSeq(OutRates) + net.dest[1].turnrate),
                              RInt(TotalInflow))>>

C6_Witness ==
    /\ IsSpeedFlowCall /\ HasSink /\ ~HasOffRamp
    /\ ValidInflow /\ QueriedIsOutgoing
    /\ result.err = "Destination is not an off-ramp!"

\* C7: get_upstream_speed_and_flow fails when the junction has neither an
\* entering link nor an origin, and when the queried link is not, by
\* identity, one of the exiting links; the inflow check comes first.
C7_StructuralChecks ==
    IsSpeedFlowCall =>
        /\ ~ValidInflow => result.err = "No entering links or origin!"
        /\ (ValidInflow /\ ~QueriedIsOutgoing) =>
               result.err = "Link not contained in entering links!"

\* Both checks would fail; the inflow check is the one reported.
C7_Witness ==
    /\ IsSpeedFlowCall /\ ~ValidInflow /\ ~QueriedIsOutgoing
    /\ NDown > 0
    /\ result.err = "No entering links or origin!"

C9_SpeedAndSingleCount ==
    (IsSpeedFlowCall /\ Returned) =>
        /\ NUp = 0 => result.v = [formula |-> FALSE,
                                  val |-> <<net.origin[1].v, 1>>]
        /\ NUp = 1 => result.v = [formula |-> FALSE, val |-> <<InSpeeds[1], 1>>]
        /\ NUp > 1 =>
               result.v = [formula |-> TRUE,
                           val |-> Rat(SumSeq([i \in 1..NUp |->
                                                  InFlows[i] * InSpeeds[i]]),
                                       SumSeq(InFlows))]
        /\ result.q =
               RMul(Rat(QueriedRate, SumSeq(OutRates)),
                    RSub(RInt(TotalInflow),
                         IF result.q_d = <<>> THEN <<0, 1>> ELSE result.q_d[1]))

\* Origin only, one exiting link, no sink: the flow is the origin's flow, once.
C9_Witness ==
    /\ IsSpeedFlowCall /\ Returned
    /\ NUp = 0 /\ HasOrigin /\ ~HasSink /\ NDown = 1
    /\ result.q = <<net.origin[1].q, 1>>
    /\ result.v.val = <<net.origin[1].v, 1>>

\* C10: with exactly one entering link and an off-ramp, get_flow with q_up,
\* q_orig and betas_down omitted equals the q_d that
\* get_upstream_speed_and_flow obtains by passing them, with or without an
\* origin.
C10_OffRampFlowConsistent ==
    (IsSpeedFlowCall /\ Returned /\ HasOffRamp /\ NUp = 1) =>
        LET f == OffRamp_get_flow(net, net.dest[1], <<>>, <<>>, <<>>)
        IN  f.err = "" /\ result.q_d = <<f.q>>

C10_Witness ==
    /\ IsSpeedFlowCall /\ Returned /\ HasOffRamp /\ NUp = 1 /\ HasOrigin
    /\ NDown = 2
    /\ result.q_d = <<OffRamp_get_flow(net, net.dest[1], <<>>, <<>>, <<>>).q>>

====
